---- MODULE Spec2Model ----
(***************************************************************************)
(* Capability-scoped tool dispatch of the Gmail MCP server: the scope      *)
(* name <-> URL tables and helpers (scopes module) and the tool registry   *)
(* (tools.ts).  Every operation is a pure function over static tables, so  *)
(* the state machine draws a call (operation and inputs) in Init and the   *)
(* actions apply the operation to it.                                      *)
(*                                                                         *)
(* JavaScript values are records [type, val]: a lookup in a plain object   *)
(* can yield a string, undefined, or a member inherited from               *)
(* Object.prototype, and `x || y` picks by truthiness.                     *)
(***************************************************************************)
EXTENDS Integers, Sequences, FiniteSets, TLC

VARIABLES pc, op, arg, arg2, result, descriptor, invoked

vars == <<pc, op, arg, arg2, result, descriptor, invoked>>

\* ---------------------------------------------------------------- bounds
\* Longest scope list passed to an operation.
MaxLen == 2

\* Longest CLI text passed to parseScopes.
MaxText == 5

\* ------------------------------------------------------- JavaScript values
Str(s) == [type |-> "string", val |-> s]

Undefined == [type |-> "undefined", val |-> "undefined"]

\* Members every plain object inherits from Object.prototype.
ObjectPrototypeKeys ==
    {"constructor", "__proto__", "toString", "valueOf", "hasOwnProperty",
     "isPrototypeOf", "propertyIsEnumerable", "toLocaleString"}

Inherited(k) ==
    [type |-> IF k = "__proto__" THEN "object" ELSE "function", val |-> k]

ToBoolean(v) == v.type # "undefined" /\ v # Str("")

HasOwn(obj, k) == \E i \in 1..Len(obj) : obj[i][1] = k

\* obj[k] on a plain object whose own properties are the pairs of obj.
Get(obj, k) ==
    IF HasOwn(obj, k)
      THEN Str(obj[CHOOSE i \in 1..Len(obj) : obj[i][1] = k][2])
      ELSE IF k \in ObjectPrototypeKeys THEN Inherited(k) ELSE Undefined

RECURSIVE ObjectFromEntries(_)
\* Object.fromEntries: insertion order of first occurrence, last value wins.
ObjectFromEntries(es) ==
    IF es = <<>> THEN <<>>
    ELSE LET init == ObjectFromEntries(SubSeq(es, 1, Len(es) - 1))
             e    == es[Len(es)]
         IN IF HasOwn(init, e[1])
              THEN [i \in 1..Len(init) |->
                      IF init[i][1] = e[1] THEN e ELSE init[i]]
              ELSE Append(init, e)

\* ------------------------------------------------------------ scope tables
SCOPE_MAP_dupUrl ==
    << <<"gmail.readonly", "https://www.googleapis.com/auth/gmail.readonly">>,
       <<"gmail.modify", "https://www.googleapis.com/auth/gmail.modify">>,
       <<"gmail.compose", "https://www.googleapis.com/auth/gmail.compose">>,
       <<"gmail.send", "https://www.googleapis.com/auth/gmail.compose">>,
       <<"gmail.labels", "https://www.googleapis.com/auth/gmail.labels">>,
       <<"gmail.settings.basic", "https://www.googleapis.com/auth/gmail.settings.basic">>,
       <<"gmail.settings.sharing", "https://www.googleapis.com/auth/gmail.settings.sharing">> >>

SCOPE_MAP ==
    << <<"gmail.readonly", "https://www.googleapis.com/auth/gmail.readonly">>,
       <<"gmail.modify", "https://www.googleapis.com/auth/gmail.modify">>,
       <<"gmail.compose", "https://www.googleapis.com/auth/gmail.compose">>,
       <<"gmail.send", "https://www.googleapis.com/auth/gmail.send">>,
       <<"gmail.labels", "https://www.googleapis.com/auth/gmail.labels">>,
       <<"gmail.settings.basic", "https://www.googleapis.com/auth/gmail.settings.basic">>,
       <<"gmail.settings.sharing", "https://www.googleapis.com/auth/gmail.settings.sharing">> >>

SCOPE_REVERSE_MAP ==
    ObjectFromEntries([i \in 1..Len(SCOPE_MAP) |->
                         <<SCOPE_MAP[i][2], SCOPE_MAP[i][1]>>])

DEFAULT_SCOPES == <<"gmail.modify", "gmail.settings.basic">>

\* ----------------------------------------------------------- scope helpers
scopeNameToUrl(scope) ==
    LET v == Get(SCOPE_MAP, scope) IN IF ToBoolean(v) THEN v ELSE Str(scope)

scopeUrlToName(scope) ==
    LET v == Get(SCOPE_REVERSE_MAP, scope)
    IN IF ToBoolean(v) THEN v ELSE Str(scope)

scopeNamesToUrls(scopes) ==
    [i \in 1..Len(scopes) |-> scopeNameToUrl(scopes[i])]

\* Array.prototype.includes on an array of values.
Includes(arr, v) == \E i \in 1..Len(arr) : arr[i] = v

hasScope_every(authorizedScopes, requiredScopes) ==
    LET normalizedAuth ==
          [i \in 1..Len(authorizedScopes) |-> scopeUrlToName(authorizedScopes[i])]
    IN \A j \in 1..Len(requiredScopes) :
          Includes(normalizedAuth, Str(requiredScopes[j]))

hasScope_raw(authorizedScopes, requiredScopes) ==
    LET normalizedAuth ==
          [i \in 1..Len(authorizedScopes) |-> Str(authorizedScopes[i])]
    IN \E j \in 1..Len(requiredScopes) :
          Includes(normalizedAuth, Str(requiredScopes[j]))

hasScope_negated(authorizedScopes, requiredScopes) ==
    LET normalizedAuth ==
          [i \in 1..Len(authorizedScopes) |-> scopeUrlToName(authorizedScopes[i])]
    IN \E j \in 1..Len(requiredScopes) :
          ~Includes(normalizedAuth, Str(requiredScopes[j]))

hasScope(authorizedScopes, requiredScopes) ==
    LET normalizedAuth ==
          [i \in 1..Len(authorizedScopes) |-> scopeUrlToName(authorizedScopes[i])]
    IN \E j \in 1..Len(requiredScopes) :
          Includes(normalizedAuth, Str(requiredScopes[j]))

RECURSIVE Filter(_, _)
\* Array.prototype.filter with the indices to keep given as a set.
Filter(arr, keep) ==
    IF arr = <<>> THEN <<>>
    ELSE LET init == Filter(SubSeq(arr, 1, Len(arr) - 1), keep)
         IN IF Len(arr) \in keep THEN Append(init, arr[Len(arr)]) ELSE init

validateScopes(scopes) ==
    LET invalid ==
          Filter(scopes, {i \in 1..Len(scopes) :
                            ~ToBoolean(Get(SCOPE_MAP, scopes[i]))})
    IN [valid |-> Len(invalid) = 0, invalid |-> invalid]

getAvailableScopeNames == [i \in 1..Len(SCOPE_MAP) |-> SCOPE_MAP[i][1]]

\* ------------------------------------------------------------- parseScopes
\* A text is a sequence of one-character strings.
IsWhitespace(c) == c \in {" ", "\t", "\n", "\r"}

\* The character class [,\s].
IsSeparator(c) == c = "," \/ IsWhitespace(c)

\* End (exclusive) of the greedy match of /[,\s]+/ at position q, or q when
\* the pattern does not match there.
MatchEnd(text, q) ==
    CHOOSE e \in q..(Len(text) + 1) :
        /\ \A i \in q..(e - 1) : IsSeparator(text[i])
        /\ (e = Len(text) + 1 \/ ~IsSeparator(text[e]))

RECURSIVE SplitFrom(_, _, _, _)
\* String.prototype.split with a regular expression: p is the start of the
\* pending piece, q the position where a match is tried next.
SplitFrom(text, p, q, acc) ==
    IF q > Len(text) THEN Append(acc, SubSeq(text, p, Len(text)))
    ELSE LET e == MatchEnd(text, q)
         IN IF e = q THEN SplitFrom(text, p, q + 1, acc)
            ELSE SplitFrom(text, e, e, Append(acc, SubSeq(text, p, q - 1)))

Split(text) == IF text = <<>> THEN << <<>> >> ELSE SplitFrom(text, 1, 1, <<>>)

RECURSIVE Trim(_)
Trim(s) ==
    IF s = <<>> THEN s
    ELSE IF IsWhitespace(s[1]) THEN Trim(Tail(s))
    ELSE IF IsWhitespace(s[Len(s)]) THEN Trim(SubSeq(s, 1, Len(s) - 1))
    ELSE s

parseScopes_noFilter(input) ==
    LET pieces == Split(input)
    IN [i \in 1..Len(pieces) |-> Trim(pieces[i])]

parseScopes(input) ==
    LET pieces  == Split(input)
        trimmed == [i \in 1..Len(pieces) |-> Trim(pieces[i])]
    IN Filter(trimmed, {i \in 1..Len(trimmed) : Len(trimmed[i]) > 0})

\* ----------------------------------------------------------- tool registry
\* A ToolDefinition is kept as its name and scopes; description and schema
\* take no part in lookup or authorization.
\* send_email without gmail.compose.
toolDefinitions_sendWithoutCompose ==
    <<
       [name |-> "read_email", scopes |-> <<"gmail.readonly", "gmail.modify">>],
       [name |-> "search_emails", scopes |-> <<"gmail.readonly", "gmail.modify">>],
       [name |-> "download_attachment", scopes |-> <<"gmail.readonly", "gmail.modify">>],
       [name |-> "send_email", scopes |-> <<"gmail.modify", "gmail.send">>],
       [name |-> "draft_email", scopes |-> <<"gmail.modify", "gmail.compose">>],
       [name |-> "modify_email", scopes |-> <<"gmail.modify">>],
       [name |-> "delete_email", scopes |-> <<"gmail.modify">>],
       [name |-> "batch_modify_emails", scopes |-> <<"gmail.modify">>],
       [name |-> "batch_delete_emails", scopes |-> <<"gmail.modify">>],
       [name |-> "list_email_labels", scopes |-> <<"gmail.readonly", "gmail.modify", "gmail.labels">>],
       [name |-> "create_label", scopes |-> <<"gmail.modify", "gmail.labels">>],
       [name |-> "update_label", scopes |-> <<"gmail.modify", "gmail.labels">>],
       [name |-> "delete_label", scopes |-> <<"gmail.modify", "gmail.labels">>],
       [name |-> "get_or_create_label", scopes |-> <<"gmail.modify", "gmail.labels">>],
       [name |-> "list_filters", scopes |-> <<"gmail.settings.basic">>],
       [name |-> "get_filter", scopes |-> <<"gmail.settings.basic">>],
       [name |-> "create_filter", scopes |-> <<"gmail.settings.basic">>],
       [name |-> "delete_filter", scopes |-> <<"gmail.settings.basic">>],
       [name |-> "create_filter_from_template", scopes |-> <<"gmail.settings.basic">>]
    >>

\* The modify_email record pasted over with a second delete_email.
toolDefinitions_duplicate ==
    <<
       [name |-> "read_email", scopes |-> <<"gmail.readonly", "gmail.modify">>],
       [name |-> "search_emails", scopes |-> <<"gmail.readonly", "gmail.modify">>],
       [name |-> "download_attachment", scopes |-> <<"gmail.readonly", "gmail.modify">>],
       [name |-> "send_email", scopes |-> <<"gmail.modify", "gmail.compose", "gmail.send">>],
       [name |-> "draft_email", scopes |-> <<"gmail.modify", "gmail.compose">>],
       [name |-> "delete_email", scopes |-> <<"gmail.readonly", "gmail.modify">>],
       [name |-> "delete_email", scopes |-> <<"gmail.modify">>],
       [name |-> "batch_modify_emails", scopes |-> <<"gmail.modify">>],
       [name |-> "batch_delete_emails", scopes |-> <<"gmail.modify">>],
       [name |-> "list_email_labels", scopes |-> <<"gmail.readonly", "gmail.modify", "gmail.labels">>],
       [name |-> "create_label", scopes |-> <<"gmail.modify", "gmail.labels">>],
       [name |-> "update_label", scopes |-> <<"gmail.modify", "gmail.labels">>],
       [name |-> "delete_label", scopes |-> <<"gmail.modify", "gmail.labels">>],
       [name |-> "get_or_create_label", scopes |-> <<"gmail.modify", "gmail.labels">>],
       [name |-> "list_filters", scopes |-> <<"gmail.settings.basic">>],
       [name |-> "get_filter", scopes |-> <<"gmail.settings.basic">>],
       [name |-> "create_filter", scopes |-> <<"gmail.settings.basic">>],
       [name |-> "delete_filter", scopes |-> <<"gmail.settings.basic">>],
       [name |-> "create_filter_from_template", scopes |-> <<"gmail.settings.basic">>]
    >>

toolDefinitions ==
    <<
       [name |-> "read_email", scopes |-> <<"gmail.readonly", "gmail.modify">>],
       [name |-> "search_emails", scopes |-> <<"gmail.readonly", "gmail.modify">>],
       [name |-> "download_attachment", scopes |-> <<"gmail.readonly", "gmail.modify">>],
       [name |-> "send_email", scopes |-> <<"gmail.modify", "gmail.compose", "gmail.send">>],
       [name |-> "draft_email", scopes |-> <<"gmail.modify", "gmail.compose">>],
       [name |-> "modify_email", scopes |-> <<"gmail.modify">>],
       [name |-> "delete_email", scopes |-> <<"gmail.modify">>],
       [name |-> "batch_modify_emails", scopes |-> <<"gmail.modify">>],
       [name |-> "batch_delete_emails", scopes |-> <<"gmail.modify">>],
       [name |-> "list_email_labels", scopes |-> <<"gmail.readonly", "gmail.modify", "gmail.labels">>],
       [name |-> "create_label", scopes |-> <<"gmail.modify", "gmail.labels">>],
       [name |-> "update_label", scopes |-> <<"gmail.modify", "gmail.labels">>],
       [name |-> "delete_label", scopes |-> <<"gmail.modify", "gmail.labels">>],
       [name |-> "get_or_create_label", scopes |-> <<"gmail.modify", "gmail.labels">>],
       [name |-> "list_filters", scopes |-> <<"gmail.settings.basic">>],
       [name |-> "get_filter", scopes |-> <<"gmail.settings.basic">>],
       [name |-> "create_filter", scopes |-> <<"gmail.settings.basic">>],
       [name |-> "delete_filter", scopes |-> <<"gmail.settings.basic">>],
       [name |-> "create_filter_from_template", scopes |-> <<"gmail.settings.basic">>]
    >>

getToolByName(name) ==
    IF \E i \in 1..Len(toolDefinitions) : toolDefinitions[i].name = name
      THEN LET first == CHOOSE i \in 1..Len(toolDefinitions) :
                          /\ toolDefinitions[i].name = name
                          /\ \A k \in 1..(i - 1) : toolDefinitions[k].name # name
           IN toolDefinitions[first]
      ELSE Undefined

IsUndefined(v) == "type" \in DOMAIN v /\ v.type = "undefined"

\* ------------------------------------------------------------------ inputs
SeqsUpTo(S, n) == UNION {[1..k -> S] : k \in 0..n}

\* Strings given to the one-string helpers: the catalogue in both forms,
\* strings outside it, and names of members inherited by plain objects.
ScopeStrings ==
    {SCOPE_MAP[i][1] : i \in 1..Len(SCOPE_MAP)}
      \cup {SCOPE_MAP[i][2] : i \in 1..Len(SCOPE_MAP)}
      \cup {"", "not.a.scope", "https://unknown", "bogus.scope",
            "constructor", "__proto__", "toString"}

\* Elements of the scope lists.
ScopeSample ==
    {"gmail.readonly", "gmail.modify", "gmail.compose", "gmail.send",
     "https://www.googleapis.com/auth/gmail.readonly",
     "https://www.googleapis.com/auth/gmail.modify",
     "bogus.scope", "constructor"}

\* Elements of the required lists given to hasScope directly.
RequiredSample ==
    {"gmail.readonly", "gmail.modify",
     "https://www.googleapis.com/auth/gmail.modify", "constructor"}

Chars == {"a", "b", ",", " ", "\n"}

ToolNameInputs ==
    {toolDefinitions[i].name : i \in 1..Len(toolDefinitions)}
      \cup {"unknown_tool", "constructor"}

Ops ==
    {"scopeNameToUrl", "scopeUrlToName", "scopeNamesToUrls", "hasScope",
     "parseScopes", "validateScopes", "getToolByName", "dispatch"}

\* ------------------------------------------------------------------- state
\* pc: "call" before the operation has run, "done" after it; the dispatch
\* passes through "authorize", "validate" and "invoke" in between.
Init ==
    /\ pc = "call"
    /\ op \in Ops
    /\ arg \in CASE op \in {"scopeNameToUrl", "scopeUrlToName"} -> ScopeStrings
                 [] op = "parseScopes" -> SeqsUpTo(Chars, MaxText)
                 [] op = "getToolByName" -> ToolNameInputs
                 [] OTHER -> SeqsUpTo(ScopeSample, MaxLen)
    /\ arg2 \in CASE op = "hasScope" -> SeqsUpTo(RequiredSample, MaxLen)
                  [] op = "dispatch" -> ToolNameInputs
                  [] OTHER -> {<<>>}
    /\ result = Undefined
    /\ descriptor = Undefined
    /\ invoked = <<>>

Return(v) ==
    /\ result' = v
    /\ pc' = "done"
    /\ UNCHANGED <<op, arg, arg2, descriptor, invoked>>

ScopeNameToUrl == pc = "call" /\ op = "scopeNameToUrl" /\ Return(scopeNameToUrl(arg))

ScopeUrlToName == pc = "call" /\ op = "scopeUrlToName" /\ Return(scopeUrlToName(arg))

ScopeNamesToUrls == pc = "call" /\ op = "scopeNamesToUrls" /\ Return(scopeNamesToUrls(arg))

HasScope == pc = "call" /\ op = "hasScope" /\ Return(hasScope(arg, arg2))

ParseScopes == pc = "call" /\ op = "parseScopes" /\ Return(parseScopes(arg))

ValidateScopes == pc = "call" /\ op = "validateScopes" /\ Return(validateScopes(arg))

GetToolByName == pc = "call" /\ op = "getToolByName" /\ Return(getToolByName(arg))

\* --------------------------------------------------------------- dispatch
\* The dispatcher composes getToolByName and hasScope: arg is the caller's
\* authorized scopes, arg2 the requested tool name.
DispatchLookup ==
    /\ pc = "call" /\ op = "dispatch"
    /\ descriptor' = getToolByName(arg2)
    /\ IF IsUndefined(descriptor')
         THEN result' = Str("UnknownTool") /\ pc' = "done"
         ELSE result' = result /\ pc' = "authorize"
    /\ UNCHANGED <<op, arg, arg2, invoked>>

DispatchAuthorize ==
    /\ pc = "authorize"
    /\ IF hasScope(arg, descriptor.scopes)
         THEN result' = result /\ pc' = "validate"
         ELSE result' = Str("UnauthorizedTool") /\ pc' = "done"
    /\ UNCHANGED <<op, arg, arg2, descriptor, invoked>>

\* The input contract is opaque: the arguments either pass or fail it.
DispatchValidate ==
    /\ pc = "validate"
    /\ \E argsValid \in BOOLEAN :
         IF argsValid
           THEN result' = result /\ pc' = "invoke"
           ELSE result' = Str("InvalidArguments") /\ pc' = "done"
    /\ UNCHANGED <<op, arg, arg2, descriptor, invoked>>

DispatchInvoke ==
    /\ pc = "invoke"
    /\ invoked' = Append(invoked, descriptor.name)
    /\ result' = Str("Invoked")
    /\ pc' = "done"
    /\ UNCHANGED <<op, arg, arg2, descriptor>>

Next ==
    \/ ScopeNameToUrl
    \/ ScopeUrlToName
    \/ ScopeNamesToUrls
    \/ HasScope
    \/ ParseScopes
    \/ ValidateScopes
    \/ GetToolByName
    \/ DispatchLookup
    \/ DispatchAuthorize
    \/ DispatchValidate
    \/ DispatchInvoke

Spec == Init /\ [][Next]_vars

\* =================================================================== claims
\* The documented vocabulary: short name -> canonical URL.
SpecCatalogue ==
    [n \in {"gmail.readonly", "gmail.modify", "gmail.compose", "gmail.send",
            "gmail.labels", "gmail.settings.basic", "gmail.settings.sharing"} |->
       CASE n = "gmail.readonly" -> "https://www.googleapis.com/auth/gmail.readonly"
         [] n = "gmail.modify" -> "https://www.googleapis.com/auth/gmail.modify"
         [] n = "gmail.compose" -> "https://www.googleapis.com/auth/gmail.compose"
         [] n = "gmail.send" -> "https://www.googleapis.com/auth/gmail.send"
         [] n = "gmail.labels" -> "https://www.googleapis.com/auth/gmail.labels"
         [] n = "gmail.settings.basic" -> "https://www.googleapis.com/auth/gmail.settings.basic"
         [] n = "gmail.settings.sharing" -> "https://www.googleapis.com/auth/gmail.settings.sharing"]

SpecScopeNames == DOMAIN SpecCatalogue

SpecScopeUrls == {SpecCatalogue[n] : n \in SpecScopeNames}

\* The documented registry: tool name -> required scopes (any-of).
SpecToolScopes ==
    [t \in {"read_email", "search_emails", "download_attachment", "send_email",
            "draft_email", "modify_email", "delete_email", "batch_modify_emails",
            "batch_delete_emails", "list_email_labels", "create_label",
            "update_label", "delete_label", "get_or_create_label",
            "list_filters", "get_filter", "create_filter", "delete_filter",
            "create_filter_from_template"} |->
       CASE t \in {"read_email", "search_emails", "download_attachment"} ->
              {"gmail.readonly", "gmail.modify"}
         [] t = "send_email" -> {"gmail.modify", "gmail.compose", "gmail.send"}
         [] t = "draft_email" -> {"gmail.modify", "gmail.compose"}
         [] t \in {"modify_email", "delete_email", "batch_modify_emails",
                   "batch_delete_emails"} -> {"gmail.modify"}
         [] t = "list_email_labels" ->
              {"gmail.readonly", "gmail.modify", "gmail.labels"}
         [] t \in {"create_label", "update_label", "delete_label",
                   "get_or_create_label"} -> {"gmail.modify", "gmail.labels"}
         [] OTHER -> {"gmail.settings.basic"}]

Elems(s) == {s[i] : i \in 1..Len(s)}

Done(o) == op = o /\ pc = "done"

ModifyUrl == "https://www.googleapis.com/auth/gmail.modify"

Holds(A, S) == \E a \in Elems(A) : scopeUrlToName(a) \in {Str(s) : s \in S}

Registered(name) == \E i \in 1..Len(toolDefinitions) : toolDefinitions[i].name = name

ScopesOf(name) ==
    Elems(toolDefinitions[CHOOSE i \in 1..Len(toolDefinitions) :
                            toolDefinitions[i].name = name].scopes)

\* C2: a dispatch invokes the tool only if the name resolves to a descriptor
\* and the caller holds one of its scopes; a caller holding none of them is
\* rejected as UnauthorizedTool, which differs from the UnknownTool outcome,
\* and nothing is invoked.
C2_DispatchGuardsInvocation ==
    op = "dispatch" =>
      /\ invoked # <<>> =>
           /\ invoked = <<arg2>>
           /\ Registered(arg2)
           /\ Holds(arg, ScopesOf(arg2))
      /\ (pc = "done" /\ Registered(arg2) /\ ~Holds(arg, ScopesOf(arg2))) =>
           /\ result = Str("UnauthorizedTool")
           /\ invoked = <<>>
      /\ (pc = "done" /\ ~Registered(arg2)) =>
           /\ result = Str("UnknownTool")
           /\ invoked = <<>>
      /\ (arg = <<"gmail.readonly">> /\ arg2 = "delete_email") =>
           /\ pc \in {"call", "authorize", "done"}
           /\ invoked = <<>>

\* A read-only caller asking for delete_email has been rejected.
C2_Witness ==
    /\ Done("dispatch")
    /\ arg = <<"gmail.readonly">>
    /\ arg2 = "delete_email"
    /\ result = Str("UnauthorizedTool")
    /\ invoked = <<>>

\* C3: the registry holds exactly one descriptor for each of the 19
\* documented tool names and no others, every descriptor has a non-empty
\* scope list, and its scope set is the documented one for that name.
C3_RegistryContent ==
    /\ Cardinality(DOMAIN SpecToolScopes) = 19
    /\ {toolDefinitions[i].name : i \in 1..Len(toolDefinitions)} = DOMAIN SpecToolScopes
    /\ \A i, j \in 1..Len(toolDefinitions) :
         i # j => toolDefinitions[i].name # toolDefinitions[j].name
    /\ \A i \in 1..Len(toolDefinitions) :
         /\ Len(toolDefinitions[i].scopes) > 0
         /\ toolDefinitions[i].name \in DOMAIN SpecToolScopes
         /\ Elems(toolDefinitions[i].scopes) = SpecToolScopes[toolDefinitions[i].name]
    /\ (Done("getToolByName") /\ arg \in DOMAIN SpecToolScopes) =>
         /\ ~IsUndefined(result)
         /\ result.name = arg
         /\ Elems(result.scopes) = SpecToolScopes[arg]

\* The lookup of send_email has returned its three-scope descriptor.
C3_Witness ==
    /\ Done("getToolByName")
    /\ arg = "send_email"
    /\ ~IsUndefined(result)
    /\ Elems(result.scopes) = {"gmail.modify", "gmail.compose", "gmail.send"}

\* C4: the name <-> URL mapping is a bijection over the seven-entry
\* vocabulary: no two names share a URL, the reverse table has one entry
\* per forward entry, and each conversion undoes the other on the catalogue.
C4_Bijection ==
    /\ Len(SCOPE_MAP) = Cardinality(SpecScopeNames)
    /\ Len(SCOPE_REVERSE_MAP) = Len(SCOPE_MAP)
    /\ \A i, j \in 1..Len(SCOPE_MAP) :
         i # j => SCOPE_MAP[i][2] # SCOPE_MAP[j][2]
    /\ (Done("scopeNameToUrl") /\ arg \in SpecScopeNames) =>
         /\ result = Str(SpecCatalogue[arg])
         /\ scopeUrlToName(result.val) = Str(arg)
    /\ (Done("scopeUrlToName") /\ arg \in SpecScopeUrls) =>
         /\ result.type = "string"
         /\ SpecCatalogue[result.val] = arg
         /\ scopeNameToUrl(result.val) = Str(arg)

\* The URL of the last catalogue entry has been converted back to its name.
C4_Witness ==
    /\ Done("scopeUrlToName")
    /\ arg = "https://www.googleapis.com/auth/gmail.settings.sharing"
    /\ result = Str("gmail.settings.sharing")

\* C5: a string that is not a catalogue short name is returned unchanged by
\* scopeNameToUrl, a string that is not a catalogue URL is returned unchanged
\* by scopeUrlToName, neither returns anything but a mapped string or its
\* input, and scopeNamesToUrls maps element-wise keeping order and duplicates.
C5_PassThroughOnMiss ==
    /\ (Done("scopeNameToUrl") /\ arg \notin SpecScopeNames) => result = Str(arg)
    /\ (Done("scopeUrlToName") /\ arg \notin SpecScopeUrls) => result = Str(arg)
    /\ Done("scopeNameToUrl") =>
         result \in {Str(arg)} \cup {Str(u) : u \in SpecScopeUrls}
    /\ Done("scopeUrlToName") =>
         result \in {Str(arg)} \cup {Str(n) : n \in SpecScopeNames}
    /\ Done("scopeNamesToUrls") =>
         /\ Len(result) = Len(arg)
         /\ \A i \in 1..Len(arg) :
              result[i] = IF arg[i] \in SpecScopeNames
                            THEN Str(SpecCatalogue[arg[i]]) ELSE Str(arg[i])

\* C6: validateScopes reports as invalid exactly the elements, in order and
\* with duplicates, that are not one of the seven catalogue names, and valid
\* is true exactly when none is reported.
C6_ValidateReportsUnknown ==
    Done("validateScopes") =>
      /\ result.invalid =
           Filter(arg, {i \in 1..Len(arg) : arg[i] \notin SpecScopeNames})
      /\ result.valid = (result.invalid = <<>>)

\* Starts of the maximal runs of non-separator characters of a text.
RunStarts(text) ==
    {i \in 1..Len(text) :
       ~IsSeparator(text[i]) /\ (i = 1 \/ IsSeparator(text[i - 1]))}

RunEnd(text, i) ==
    CHOOSE j \in i..Len(text) :
      /\ \A k \in i..j : ~IsSeparator(text[k])
      /\ (j = Len(text) \/ IsSeparator(text[j + 1]))

KthStart(text, k) ==
    CHOOSE s \in RunStarts(text) :
      Cardinality({t \in RunStarts(text) : t < s}) = k - 1

\* C7: parseScopes returns, in order and with duplicates, exactly the
\* maximal runs of characters that are neither a comma nor whitespace; no
\* token is empty or holds a separator, and a text with no such run (empty
\* or separators only) yields the empty sequence.
C7_ParseMaximalRuns ==
    Done("parseScopes") =>
      /\ Len(result) = Cardinality(RunStarts(arg))
      /\ \A k \in 1..Len(result) :
           /\ result[k] = SubSeq(arg, KthStart(arg, k), RunEnd(arg, KthStart(arg, k)))
           /\ result[k] # <<>>
           /\ \A c \in Elems(result[k]) : ~IsSeparator(c)
      /\ (\A c \in Elems(arg) : IsSeparator(c)) => result = <<>>

\* A text with leading, repeated and trailing separators has been parsed.
C7_Witness ==
    /\ Done("parseScopes")
    /\ arg = <<",", "a", ",", " ", "a">>
    /\ result = << <<"a">>, <<"a">> >>

\* The other representation of a catalogue scope; any other string itself.
OtherForm(s) ==
    IF s \in SpecScopeNames THEN SpecCatalogue[s]
    ELSE IF s \in SpecScopeUrls
      THEN CHOOSE n \in SpecScopeNames : SpecCatalogue[n] = s
      ELSE s

ReplaceAt(scopes, i) == [scopes EXCEPT ![i] = OtherForm(scopes[i])]

\* C9 as stated: replacing a catalogue scope by its other form, in the
\* authorized list or in the required list, leaves hasScope unchanged.
C9_RepresentationIndependent ==
    Done("hasScope") =>
      /\ \A i \in 1..Len(arg) : hasScope(ReplaceAt(arg, i), arg2) = result
      /\ \A j \in 1..Len(arg2) : hasScope(arg, ReplaceAt(arg2, j)) = result

\* C9 amended: replacing a catalogue scope of the authorized list by its
\* other form leaves hasScope unchanged (the required list is compared as
\* given).
C9_AuthorizedRepresentationIndependent ==
    Done("hasScope") =>
      \A i \in 1..Len(arg) : hasScope(ReplaceAt(arg, i), arg2) = result

\* A short-name grant is authorized, and so is the same grant as a URL.
C9_Witness ==
    /\ Done("hasScope")
    /\ arg = <<"gmail.readonly">>
    /\ arg2 = <<"gmail.readonly">>
    /\ result = TRUE
    /\ ReplaceAt(arg, 1) = <<"https://www.googleapis.com/auth/gmail.readonly">>

\* C10: every descriptor that lists gmail.readonly also lists gmail.modify
\* and every descriptor that lists gmail.send also lists gmail.compose, so
\* for every tool a gmail.modify-only caller is authorized whenever a
\* gmail.readonly-only caller is, and a gmail.compose-only caller whenever a
\* gmail.send-only caller is.
C10_RegistryCoversHierarchy ==
    /\ \A i \in 1..Len(toolDefinitions) :
         LET scopes == toolDefinitions[i].scopes
         IN /\ "gmail.readonly" \in Elems(scopes) => "gmail.modify" \in Elems(scopes)
            /\ "gmail.send" \in Elems(scopes) => "gmail.compose" \in Elems(scopes)
            /\ hasScope(<<"gmail.readonly">>, scopes) => hasScope(<<"gmail.modify">>, scopes)
            /\ hasScope(<<"gmail.send">>, scopes) => hasScope(<<"gmail.compose">>, scopes)
    /\ (op = "dispatch" /\ pc \in {"validate", "invoke"}) =>
         /\ arg = <<"gmail.readonly">> => hasScope(<<"gmail.modify">>, descriptor.scopes)
         /\ arg = <<"gmail.send">> => hasScope(<<"gmail.compose">>, descriptor.scopes)

\* A gmail.send-only caller has been authorized for send_email.
C10_Witness ==
    /\ op = "dispatch"
    /\ pc = "invoke"
    /\ arg = <<"gmail.send">>
    /\ arg2 = "send_email"

====
